---------------------------- MODULE Spec2Model ----------------------------
(***************************************************************************)
(* Novel translator (Express / Mongoose).  The repository holds several    *)
(* iterations of the same server file; the variable build says which one   *)
(* is running:                                                             *)
(*   "server"    src/server.js            admin session, manual and auto   *)
(*               (src/unnamed/part_003 has the same chapter handler)       *)
(*   "part_001b" src/unnamed/part_001, lines 384-593: the first AI server  *)
(*   "part_002"  src/unnamed/part_002     roles, sanitizer, rollup         *)
(*               (part_000 and part_001 lines 1-383 are its predecessors)  *)
(***************************************************************************)
EXTENDS Integers, Sequences, FiniteSets, TLC

VARIABLES
    build,      \* which iteration of the server is running
    novels,     \* Novel collection: id -> document
    chapters,   \* Chapter collection: a set of documents
    nextId,     \* the next chapter _id
    clock,      \* the time new Date() reads; it advances as requests arrive
    overlap,    \* history: some request arrived while another was in flight
    req,        \* per slot, the request in flight there
    last,       \* history: the request that was answered last, and its response
    rw,         \* generateWithRetry on its own: frame and provider outcomes
    tj,         \* title derivation on its own: reply, number, stored title
    sj,         \* sanitizeContent on its own: input, output
    users,      \* User collection: id -> favorites and document version
    fq,         \* per slot, the favorite toggle in flight there
    ft,         \* history: the toggles answered last (at most two)
    sessions,   \* session store: session id -> viewedNovels
    dq,         \* per slot, the novel detail request in flight there
    incs,       \* history: per session and novel, the view increments caused
    pg,         \* listing pages on their own: matching novels, pages returned
    meta,       \* Novel collection: the fields the listing filters on
    lq,         \* history: the listing request answered last, and its result
    au,         \* accounts registered; history: who changed a novel last, how
    cs          \* chapter listing of a novel on its own: chapters, request, result

vars == <<build, novels, chapters, nextId, clock, overlap, req, last, rw, tj, sj,
          users, fq, ft, sessions, dq, incs, pg, meta, lq, au, cs>>

\* The state of the routes other than chapter creation and edit.
favs == <<users, fq, ft>>
viewing == <<sessions, dq, incs>>
catalog == <<pg, meta, lq, cs>>
extra == <<favs, viewing, catalog, au>>

Builds == {"server", "part_001b", "part_002"}

(***************************************************************************)
(* Bounds of the model.                                                    *)
(***************************************************************************)
NumNovels == 1
MaxNum == 4
MaxRequests == 2
MaxAttempts == 3
MaxTitleLen == 5
MaxDocLen == 3
NumUsers == 1
MaxToggles == 4
NumSessions == 1
MaxDetails == 3
MaxViews == 2
MaxMatching == 25
MaxQueryLen == 2
MaxHalf == 4

(***************************************************************************)
(* JavaScript values of a request body or a provider reply: a number, the  *)
(* empty string, null, or undefined (the field is absent).                 *)
(***************************************************************************)
Num(n) == [t |-> "num", v |-> n]
Undefined == [t |-> "undefined", v |-> 0]
Null == [t |-> "null", v |-> 0]
EmptyString == [t |-> "empty", v |-> 0]

\* JavaScript truthiness of such a value: 0, "", null and undefined are falsy.
Truthy(x) == x.t = "num" /\ x.v # 0

\* A numeric form field arrives as a string: "0" is a non-empty string, truthy.
TruthyField(x) == x.t = "num"


(***************************************************************************)
(* Small helpers on sequences and sets.                                    *)
(***************************************************************************)
SeqsUpTo(S, n) == UNION {[1..k -> S] : k \in 0..n}

RECURSIVE SetMax(_)
SetMax(S) ==
    IF S = {} THEN 0
    ELSE LET x == CHOOSE y \in S : TRUE
             m == SetMax(S \ {x})
         IN  IF S = {x} THEN x ELSE IF x > m THEN x ELSE m

\* Index of the last occurrence of x in s, 0 when x does not occur.
LastIndexOf(s, x) == SetMax({i \in 1..Len(s) : s[i] = x})

(***************************************************************************)
(* Content sanitizer (src/unnamed/part_002, sanitizeContent).              *)
(*                                                                         *)
(* An HTML string is a sequence of tokens: a text run, an opening tag with *)
(* its attributes (name and class of value) and the declarations of its    *)
(* style attribute (property, whether the value matches the property's     *)
(* patterns), or a closing tag.                                            *)
(***************************************************************************)
Text == [k |-> "text", tag |-> "", attrs |-> {}, styles |-> {}]
Open(tag, attrs, styles) == [k |-> "open", tag |-> tag, attrs |-> attrs, styles |-> styles]
Close(tag) == [k |-> "close", tag |-> tag, attrs |-> {}, styles |-> {}]

\* A value handed to sanitizeContent or stored as translatedContent: a
\* string (a token sequence), or undefined.
HtmlStr(d) == [t |-> "string", doc |-> d]
NoContent == [t |-> "undefined", doc |-> <<>>]

\* An allow-list that lets script through.
AllowedTagsWithScript ==
    {"b", "i", "em", "strong", "u", "p", "br", "hr", "img", "div", "span",
     "center", "h1", "h2", "h3", "script"}

\* allowedTags
AllowedTags ==
    {"b", "i", "em", "strong", "u", "p", "br", "hr", "img", "div", "span",
     "center", "h1", "h2", "h3"}

\* allowedAttributes
AllowedAttributes(tag) ==
    CASE tag = "img" -> {"src", "alt", "style", "width", "height"}
      [] tag = "p" -> {"style", "align"}
      [] tag = "div" -> {"style", "align"}
      [] tag = "span" -> {"style"}
      [] tag = "center" -> {}
      [] OTHER -> {}

\* allowedStyles, under '*': the properties whose values are matched
AllowedStyleProps == {"color", "text-align", "font-size"}

\* allowedSchemes
AllowedSchemes == {"http", "https", "data"}

\* Attributes whose value is a URL checked against allowedSchemes
\* (sanitize-html's allowedSchemesAppliedToAttributes default).
SchemeAttributes == {"href", "src", "cite"}

\* Tags whose text is dropped with them (sanitize-html's nonTextTags default).
NonTextTags == {"script", "style", "textarea", "option"}

\* Tags without a closing tag.
VoidTags == {"br", "hr", "img"}

\* A style declaration is kept when its property is allowed and its value
\* matches one of the property's patterns.
FilterStyles(styles) == {d \in styles : d[1] \in AllowedStyleProps /\ d[2] = "match"}

\* A filter that keeps a style attribute whose declarations were all dropped.
FilterAttrsKeepsEmptyStyle(tag, attrs, styles) ==
    {a \in attrs :
        /\ a[1] \in AllowedAttributes(tag)
        /\ a[1] \in SchemeAttributes => a[2] \in AllowedSchemes
        /\ a[1] = "style" => styles # {}}

\* The attributes sanitize-html keeps on an allowed tag.
FilterAttrs(tag, attrs, styles) ==
    {a \in attrs :
        /\ a[1] \in AllowedAttributes(tag)
        /\ a[1] \in SchemeAttributes => a[2] \in AllowedSchemes
        /\ a[1] = "style" => FilterStyles(styles) # {}}

FilterTag(tok) ==
    LET kept == FilterAttrs(tok.tag, tok.attrs, tok.styles)
    IN  Open(tok.tag, kept,
             IF \E a \in kept : a[1] = "style" THEN FilterStyles(tok.styles) ELSE {})

(***************************************************************************)
(* The parser hands the sanitizer well nested events: a void tag is opened *)
(* and closed at once, a closing tag closes every element opened since its *)
(* opening tag, a closing tag without an opening tag is dropped, and the   *)
(* end of the input closes what is still open.                             *)
(***************************************************************************)
RECURSIVE CloseDownTo(_, _)
CloseDownTo(pstack, k) ==
    IF Len(pstack) < k THEN <<>>
    ELSE <<Close(pstack[Len(pstack)])>> \o CloseDownTo(SubSeq(pstack, 1, Len(pstack) - 1), k)

RECURSIVE ParseEvents(_, _)
ParseEvents(toks, pstack) ==
    IF toks = <<>> THEN CloseDownTo(pstack, 1)
    ELSE LET tok == Head(toks)
             rest == Tail(toks)
         IN  CASE tok.k = "text" -> <<tok>> \o ParseEvents(rest, pstack)
               [] tok.k = "open" ->
                    IF tok.tag \in VoidTags
                    THEN <<tok, Close(tok.tag)>> \o ParseEvents(rest, pstack)
                    ELSE <<tok>> \o ParseEvents(rest, Append(pstack, tok.tag))
               [] OTHER ->
                    LET k == LastIndexOf(pstack, tok.tag)
                    IN  IF k = 0 THEN ParseEvents(rest, pstack)
                        ELSE CloseDownTo(pstack, k)
                             \o ParseEvents(rest, SubSeq(pstack, 1, k - 1))

\* sanitize-html's handlers, in its default disallowedTagsMode 'discard':
\* st = [out, frames (skip flag of each open element), skipText, depth].
OnOpenTag(st, tok) ==
    IF st.skipText THEN [st EXCEPT !.depth = @ + 1]
    ELSE LET skip == tok.tag \notin AllowedTags
         IN  [out |-> IF skip THEN st.out ELSE Append(st.out, FilterTag(tok)),
              frames |-> Append(st.frames, skip),
              skipText |-> skip /\ tok.tag \in NonTextTags,
              depth |-> IF skip /\ tok.tag \in NonTextTags THEN 1 ELSE st.depth]

OnText(st, tok) == IF st.skipText THEN st ELSE [st EXCEPT !.out = Append(@, tok)]

OnCloseTag(st, tok) ==
    IF st.skipText /\ st.depth > 1 THEN [st EXCEPT !.depth = @ - 1]
    ELSE IF st.frames = <<>> THEN [st EXCEPT !.skipText = FALSE, !.depth = 0]
    ELSE LET skip == st.frames[Len(st.frames)]
         IN  [out |-> IF skip \/ tok.tag \in VoidTags THEN st.out ELSE Append(st.out, tok),
              frames |-> SubSeq(st.frames, 1, Len(st.frames) - 1),
              skipText |-> FALSE,
              depth |-> 0]

RECURSIVE SanitizeEvents(_, _)
SanitizeEvents(events, st) ==
    IF events = <<>> THEN st.out
    ELSE LET ev == Head(events)
             nxt == CASE ev.k = "open" -> OnOpenTag(st, ev)
                      [] ev.k = "text" -> OnText(st, ev)
                      [] OTHER -> OnCloseTag(st, ev)
         IN  SanitizeEvents(Tail(events), nxt)

\* sanitizeHtml(content, options)
sanitizeHtml(doc) ==
    SanitizeEvents(ParseEvents(doc, <<>>),
                   [out |-> <<>>, frames |-> <<>>, skipText |-> FALSE, depth |-> 0])

\* sanitizeContent: if (!content) return ""; else the sanitized string.
sanitizeContent(content) ==
    IF content.t # "string" \/ content.doc = <<>> THEN <<>>
    ELSE sanitizeHtml(content.doc)

(***************************************************************************)
(* Chapter titles.  A title text is a sequence of character classes:       *)
(*   "M" a chapter marker word (one of the alternatives of the pattern),   *)
(*   "S" white space, "D" a digit or a full stop, "W" the counter word,    *)
(*   "C" a colon (ASCII or full width), "X" any other character.           *)
(***************************************************************************)
TitleChars == {"M", "S", "D", "W", "C", "X"}

\* A string-valued field of a reply or of a form: a string, or null.
Str(s) == [t |-> "string", s |-> s]
NullStr == [t |-> "null", s |-> <<>>]
TruthyStr(x) == x.t = "string" /\ x.s # <<>>

\* Stored titles: `ตอนที่ ${pre}`, `ตอนที่ ${pre} : ${text}`, or a given text.
NoPrefix == [t |-> "none", v |-> 0]
DefaultTitle(x) == [pre |-> x, sep |-> FALSE, text |-> <<>>]
PrefixedTitle(x, text) == [pre |-> x, sep |-> TRUE, text |-> text]
GivenTitle(text) == [pre |-> NoPrefix, sep |-> FALSE, text |-> text]

RECURSIVE DropWhile(_, _)
DropWhile(s, S) ==
    IF s # <<>> /\ Head(s) \in S THEN DropWhile(Tail(s), S) ELSE s

RECURSIVE DropTrailing(_, _)
DropTrailing(s, S) ==
    IF s # <<>> /\ s[Len(s)] \in S THEN DropTrailing(SubSeq(s, 1, Len(s) - 1), S) ELSE s

DropOne(s, S) == IF s # <<>> /\ Head(s) \in S THEN Tail(s) ELSE s

\* String.prototype.trim
Trim(s) == DropTrailing(DropWhile(s, {"S"}), {"S"})

\* aiTitle.replace(/^(M)?\s*[\d\.]+\s*[W]?\s*[:：]?\s*/ig, ""): the number is
\* the only mandatory part; without it nothing matches and nothing is removed.
StripChapterMarker(s) ==
    LET afterMarker == DropWhile(DropOne(s, {"M"}), {"S"})
        afterNumber == DropWhile(afterMarker, {"D"})
        afterWord == DropOne(DropWhile(afterNumber, {"S"}), {"W"})
        afterColon == DropOne(DropWhile(afterWord, {"S"}), {"C"})
    IN  IF afterNumber = afterMarker THEN s ELSE DropWhile(afterColon, {"S"})

\* data.chapterNumber || nextNumber (server.js);
\* (data.chapterNumber !== null && data.chapterNumber !== undefined) ? ... (part_001)
FinalNumber(b, data, nextNumber) ==
    IF b = "server"
    THEN IF Truthy(data.chapterNumber) THEN data.chapterNumber.v ELSE nextNumber
    ELSE IF data.chapterNumber.t = "num" THEN data.chapterNumber.v ELSE nextNumber

\* let aiTitle = data.title || data.originalTitle || ""; trim; strip (part_001)
CleanedTitle(data) ==
    LET aiTitle == IF TruthyStr(data.title) THEN data.title.s
                   ELSE IF TruthyStr(data.originalTitle) THEN data.originalTitle.s
                   ELSE <<>>
    IN  StripChapterMarker(Trim(aiTitle))

\* The title stored by auto mode for final number n.
FinalTitle(b, data, n) ==
    IF b = "server"
    THEN IF TruthyStr(data.title) THEN PrefixedTitle(Num(n), data.title.s)
         ELSE DefaultTitle(Num(n))
    ELSE IF CleanedTitle(data) = <<>> THEN DefaultTitle(Num(n))
         ELSE PrefixedTitle(Num(n), CleanedTitle(data))

(***************************************************************************)
(* generateWithRetry.  The provider's reply to one call is one of          *)
(*   "ok"       a reply whose text parses as JSON,                         *)
(*   "badjson"  a reply whose text JSON.parse rejects (thrown in the try), *)
(*   "rate"     an error whose message holds 429, 503 or Quota,            *)
(*   "other"    any other error.                                           *)
(* A frame is the state of one invocation of the function; waits are the   *)
(* delays of the sleeps it has started.                                    *)
(***************************************************************************)
Outcomes == {"ok", "badjson", "rate", "other"}

DefaultRetries == 3

NewFrame(retries) ==
    [retries |-> retries, i |-> 0, calls |-> 0, sleeps |-> 0, waits |-> <<>>,
     status |-> IF retries > 0 THEN "calling" ELSE "returned", thrown |-> 0]

NoFrame == NewFrame(0)

\* Whether the catch block treats the error as one to retry after a sleep:
\* server.js retries whatever was thrown, part_001 only the rate-limit class.
Retryable(b, outcome) ==
    IF b = "server" THEN outcome # "ok" ELSE outcome = "rate"

\* A delay that doubles with every attempt.
RetryDelayDoubling(b, i) == (IF b = "server" THEN 2000 ELSE 5000) * (2 ^ i)

\* The delay of the sleep after attempt i: 2000 ms (server.js), the
\* parameter delay = 5000 (part_001); neither changes between attempts.
RetryDelay(b, i) == IF b = "server" THEN 2000 ELSE 5000

\* setTimeout is started: the frame notes the delay in waits.
Sleeping(b, g) ==
    [g EXCEPT !.status = "sleeping", !.waits = Append(@, RetryDelay(b, g.i))]

\* One pass that takes the attempt before the last for the last.
ProviderCallThrowsEarly(b, f, outcome) ==
    LET g == [f EXCEPT !.calls = @ + 1]
    IN  IF outcome = "ok" THEN [g EXCEPT !.status = "returned"]
        ELSE IF Retryable(b, outcome) /\ f.i # f.retries - 2
             THEN Sleeping(b, g)
             ELSE [g EXCEPT !.status = "thrown", !.thrown = g.calls]

\* One pass without the throw on the last attempt: every retryable error
\* sleeps.
ProviderCallNeverRethrows(b, f, outcome) ==
    LET g == [f EXCEPT !.calls = @ + 1]
    IN  IF outcome = "ok" THEN [g EXCEPT !.status = "returned"]
        ELSE IF Retryable(b, outcome)
             THEN Sleeping(b, g)
             ELSE [g EXCEPT !.status = "thrown", !.thrown = g.calls]

\* One pass through the try block: await model.generateContent(prompt) ...
ProviderCall(b, f, outcome) ==
    LET g == [f EXCEPT !.calls = @ + 1]
    IN  IF outcome = "ok" THEN [g EXCEPT !.status = "returned"]
        ELSE IF Retryable(b, outcome) /\ f.i # f.retries - 1
             THEN Sleeping(b, g)
             ELSE [g EXCEPT !.status = "thrown", !.thrown = g.calls]

\* The timer fires: the loop goes to its next iteration, or falls off its
\* end (the function then returns undefined).
SleepDone(f) ==
    [f EXCEPT !.i = @ + 1, !.sleeps = @ + 1,
              !.status = IF f.i + 1 < f.retries THEN "calling" ELSE "returned"]

(***************************************************************************)
(* The document store and the requests.                                    *)
(***************************************************************************)
\* The requests the server may be handling at once; a request takes the
\* first free slot.
Slots == {1, 2}
NovelIds == 1..NumNovels

\* The ids a request can name: those of the novels, and 0, a well formed id
\* that resolves to no novel.
RequestIds == 0..NumNovels

Roles == {"anonymous", "reader", "writer", "admin"}

\* What the request headers say about the caller: X-Requested-With set (with
\* an Accept header that does not name json), an Accept header naming json,
\* an Accept header that does not, or no Accept header at all.
Headers == {"xhr", "json", "html", "none"}

Plain == <<Text>>
Dirty == <<Open("script", {}, {}), Text, Close("script"), Text>>

\* The number that fills the gap of the initial numbering.
GapNumber == MaxNum - 1

\* Bodies of manual chapter forms: manualChapterNumber, manualTitle,
\* manualTranslated (or the uploaded file).
ManualForms ==
    {[number |-> Undefined, title |-> NullStr, content |-> HtmlStr(Plain)],
     [number |-> EmptyString, title |-> NullStr, content |-> HtmlStr(Plain)],
     [number |-> Num(0), title |-> Str(<<"X">>), content |-> HtmlStr(Dirty)],
     [number |-> Num(GapNumber), title |-> NullStr, content |-> HtmlStr(Dirty)]}

\* Parsed replies of the provider.
ProviderReplies ==
    {[chapterNumber |-> Null, title |-> NullStr, originalTitle |-> NullStr,
      translatedContent |-> HtmlStr(Plain)],
     [chapterNumber |-> Undefined, title |-> NullStr, originalTitle |-> Str(<<"X">>),
      translatedContent |-> HtmlStr(Plain)],
     [chapterNumber |-> Num(0), title |-> Str(<<"X">>), originalTitle |-> NullStr,
      translatedContent |-> HtmlStr(Dirty)],
     [chapterNumber |-> Num(GapNumber), title |-> Str(<<"M", "D", "W", "C", "X">>),
      originalTitle |-> NullStr, translatedContent |-> HtmlStr(Plain)]}

NoLastChapter ==
    [set |-> FALSE, chapterNumber |-> 0, title |-> DefaultTitle(NoPrefix), updatedAt |-> 0]

\* A rollup that drops the chapter's title.
LastChapterUntitled(ch, now) ==
    [set |-> TRUE, chapterNumber |-> ch.chapterNumber, title |-> DefaultTitle(NoPrefix),
     updatedAt |-> now]

LastChapter(ch, now) ==
    [set |-> TRUE, chapterNumber |-> ch.chapterNumber, title |-> ch.title, updatedAt |-> now]

Chapter(id, novelId, number, title, content) ==
    [id |-> id, novelId |-> novelId, chapterNumber |-> number, title |-> title,
     translatedContent |-> content]

NoChapter == Chapter(0, 0, 0, DefaultTitle(NoPrefix), NoContent)

\* Chapter.findOne({ novelId }).sort({ chapterNumber: -1 }), then
\* lastChapter ? lastChapter.chapterNumber + 1 : 1
NextNumber(chs, novelId) ==
    LET own == {ch \in chs : ch.novelId = novelId}
    IN  IF own = {} THEN 1 ELSE SetMax({ch.chapterNumber : ch \in own}) + 1

\* requireAdmin (server.js), no guard (part_001), requireWriter (part_002)
MayWriteChapters(b, role) ==
    CASE b = "server" -> role = "admin"
      [] b = "part_001b" -> TRUE
      [] OTHER -> role \in {"admin", "writer"}

\* POST /novels and PUT /novel/:id carry the guard of the chapter routes.
MayWriteNovels(b, role) == MayWriteChapters(b, role)

\* No account registered, no novel changed yet.
NoActor == [by |-> "none", route |-> "none", accounts |-> {}]

\* The locals of a request in flight.
IdleRequest ==
    [pc |-> "idle", novelId |-> 0, mode |-> "manual", rawText |-> FALSE,
     given |-> Undefined, nextNumber |-> 0, frame |-> NoFrame, made |-> NoChapter, at |-> 0,
     hdr |-> "unread"]

\* What is remembered of an answered request: its route and inputs (given is
\* the chapter number the form or the provider gave), the chapter it made,
\* the frame of its generateWithRetry, the headers its handler read, and the
\* response.
Answered(route, r, given, made, frame, resp) ==
    [route |-> route, novelId |-> r.novelId, mode |-> r.mode, rawText |-> r.rawText,
     given |-> given, made |-> made, frame |-> frame, at |-> r.at, hdr |-> r.hdr,
     resp |-> resp]

NoAnswer == Answered("none", IdleRequest, Undefined, NoChapter, NoFrame, "none")

InFlight(c) == req[c].pc # "idle"

\* A request arrives in the first free slot: the clock advances, and the
\* history notes an overlap.
Arrive(c) ==
    /\ ~InFlight(c)
    /\ \A d \in Slots : d < c => InFlight(d)
    /\ clock < MaxRequests
    /\ clock' = clock + 1
    /\ overlap' = (overlap \/ \E d \in Slots : InFlight(d))

\* A store whose index on (novelId, chapterNumber) is unique.
InsertUnique(ch) ==
    /\ chapters' =
          IF \E old \in chapters :
                old.novelId = ch.novelId /\ old.chapterNumber = ch.chapterNumber
          THEN chapters
          ELSE chapters \cup {ch}
    /\ nextId' = nextId + 1

\* Chapter.create stored ch.
Insert(ch) ==
    /\ chapters' = chapters \cup {ch}
    /\ nextId' = nextId + 1

\* The response is written and the request leaves its slot.
Answer(c, a) ==
    /\ last' = a
    /\ req' = [req EXCEPT ![c] = IdleRequest]

\* res.json / res.redirect of server.js: isAjax is
\* req.headers.accept && req.headers.accept.includes('application/json')
ServerSuccess(hdr) == IF hdr = "json" THEN "json_ok" ELSE "redirect"
\* A catch block that never answers in JSON.
ServerFailureAsText(hdr) == "text_error"

ServerFailure(hdr) == IF hdr = "json" THEN "json_error" ELSE "text_error"

store == <<novels, chapters, nextId>>
alone == <<rw, tj, sj, extra>>

(***************************************************************************)
(* POST /novel/:id/chapters                                                *)
(***************************************************************************)

\* The route's guard redirects a session that may not write.
PostChapterDenied(c) ==
    /\ \E role \in Roles : ~MayWriteChapters(build, role)
    /\ Arrive(c)
    /\ \E id \in RequestIds :
         last' = Answered("chapters", [IdleRequest EXCEPT !.novelId = id, !.at = clock'],
                          Undefined, NoChapter, NoFrame, "redirect_denied")
    /\ UNCHANGED <<build, store, req, alone>>

\* server.js and part_001: the handler reads the novel's highest chapter;
\* in auto mode server.js then throws when there is no text to translate.
PostChapterRead(c) ==
    /\ build \in {"server", "part_001b"}
    /\ \E role \in Roles : MayWriteChapters(build, role)
    /\ Arrive(c)
    /\ \E id \in RequestIds, mode \in {"manual", "auto"}, rawText \in BOOLEAN, hdr \in Headers :
         LET r == [IdleRequest EXCEPT !.novelId = id, !.mode = mode, !.at = clock',
                                      !.rawText = (mode = "auto" /\ rawText),
                                      !.nextNumber = NextNumber(chapters, id)]
         IN  IF build = "server" /\ mode = "auto" /\ ~rawText
             THEN /\ last' = Answered("chapters", [r EXCEPT !.hdr = hdr], Undefined, NoChapter, NoFrame,
                                      ServerFailure(hdr))
                  /\ UNCHANGED req
             ELSE /\ req' = [req EXCEPT ![c] =
                                [r EXCEPT !.pc = IF mode = "manual" THEN "creating" ELSE "finding"]]
                  /\ UNCHANGED last
    /\ UNCHANGED <<build, store, alone>>

\* Manual mode of server.js and part_001: Chapter.create, then the response.
PostChapterManualCreate(c) ==
    /\ req[c].pc = "creating"
    /\ \E form \in ManualForms, hdr \in Headers :
         LET r == req[c]
             number == IF TruthyField(form.number) THEN form.number.v ELSE r.nextNumber
             title == IF TruthyStr(form.title) THEN GivenTitle(form.title.s)
                      ELSE DefaultTitle(Num(number))
             ch == Chapter(nextId, r.novelId, number, title, form.content)
         IN  /\ Insert(ch)
             /\ Answer(c, Answered("chapters", [r EXCEPT !.hdr = hdr], form.number, ch, NoFrame,
                                   IF build = "server" THEN ServerSuccess(hdr) ELSE "redirect"))
    /\ UNCHANGED <<build, novels, clock, overlap, alone>>

\* Auto mode: Novel.findById; the prompt reads novel.customPrompt, which
\* throws when the novel is null.
PostChapterFindNovel(c) ==
    /\ req[c].pc = "finding"
    /\ \E hdr \in Headers :
         LET r == req[c]
             found == r.novelId \in NovelIds /\ novels[r.novelId].exists
         IN  IF found
             THEN /\ req' = [req EXCEPT ![c] =
                                [r EXCEPT !.pc = "generating", !.frame = NewFrame(DefaultRetries)]]
                  /\ UNCHANGED last
             ELSE Answer(c, Answered("chapters", [r EXCEPT !.hdr = hdr], Undefined, NoChapter, NoFrame,
                                     IF build = "server" THEN ServerFailure(hdr)
                                     ELSE "text_error"))
    /\ UNCHANGED <<build, store, clock, overlap, alone>>

\* Auto mode: one call of the provider inside generateWithRetry.  A reply
\* that parses is stored as a chapter; an error the loop throws ends the
\* request in the handler's catch block.
PostChapterProviderCall(c) ==
    /\ req[c].pc = "generating"
    /\ req[c].frame.status = "calling"
    /\ \E outcome \in Outcomes, data \in ProviderReplies, hdr \in Headers :
         LET r == req[c]
             f == ProviderCall(build, r.frame, outcome)
             number == FinalNumber(build, data, r.nextNumber)
             ch == Chapter(nextId, r.novelId, number, FinalTitle(build, data, number),
                           data.translatedContent)
         IN  CASE f.status = "returned" ->
                    /\ Insert(ch)
                    /\ Answer(c, Answered("chapters", [r EXCEPT !.hdr = hdr], data.chapterNumber, ch, f,
                                          IF build = "server" THEN ServerSuccess(hdr)
                                          ELSE "redirect"))
               [] f.status = "thrown" ->
                    /\ UNCHANGED <<chapters, nextId>>
                    /\ Answer(c, Answered("chapters", [r EXCEPT !.hdr = hdr], Undefined, NoChapter, f,
                                          IF build = "server" THEN ServerFailure(hdr)
                                          ELSE "text_error"))
               [] OTHER ->
                    /\ UNCHANGED <<chapters, nextId, last>>
                    /\ req' = [req EXCEPT ![c].frame = f]
    /\ UNCHANGED <<build, novels, clock, overlap, alone>>

\* Auto mode: the sleep between two attempts ends.
PostChapterSleepDone(c) ==
    /\ req[c].pc = "generating"
    /\ req[c].frame.status = "sleeping"
    /\ req' = [req EXCEPT ![c].frame = SleepDone(@)]
    /\ UNCHANGED <<build, store, clock, overlap, last, alone>>

\* Mongoose on chapterNumber: { type: Number, required: true, default: 0 }:
\* an absent field takes the default, an empty string casts to null and
\* fails the required validator.
CastChapterNumber(x) ==
    CASE x.t = "num" -> [ok |-> TRUE, v |-> x.v]
      [] x.t = "undefined" -> [ok |-> TRUE, v |-> 0]
      [] OTHER -> [ok |-> FALSE, v |-> 0]

\* part_002: the handler, run for request r in slot c, sanitizes the content
\* and creates the chapter with the number of the form; a validation error
\* ends in the catch block.
SanitizedCreate(c, r) ==
    \E form \in ManualForms, hdr \in Headers :
       LET cleanContent == sanitizeContent(form.content)
           cast == CastChapterNumber(form.number)
           title == IF TruthyStr(form.title) THEN GivenTitle(form.title.s)
                    ELSE DefaultTitle(form.number)
           ch == Chapter(nextId, r.novelId, cast.v, title, HtmlStr(cleanContent))
       IN  IF cast.ok
           THEN /\ Insert(ch)
                /\ req' = [req EXCEPT ![c] =
                              [r EXCEPT !.pc = "rollup", !.made = ch, !.given = form.number]]
                /\ UNCHANGED last
           ELSE /\ UNCHANGED <<chapters, nextId>>
                /\ req' = [req EXCEPT ![c] = IdleRequest]
                /\ last' = Answered("chapters", [r EXCEPT !.hdr = hdr], form.number, NoChapter, NoFrame,
                                    IF hdr = "xhr" THEN "json_error" ELSE "text_error")

\* part_002: a request whose body is at hand arrives and the handler runs up
\* to Chapter.create.
PostChapterSanitizedCreate(c) ==
    /\ build = "part_002"
    /\ \E role \in Roles : MayWriteChapters(build, role)
    /\ Arrive(c)
    /\ \E id \in RequestIds :
         SanitizedCreate(c, [IdleRequest EXCEPT !.novelId = id, !.at = clock'])
    /\ UNCHANGED <<build, novels, alone>>

\* part_002: a request arrives whose body upload.single('txtFile') has yet
\* to read.
PostChapterUpload(c) ==
    /\ build = "part_002"
    /\ \E role \in Roles : MayWriteChapters(build, role)
    /\ Arrive(c)
    /\ \E id \in RequestIds :
         req' = [req EXCEPT ![c] =
                    [IdleRequest EXCEPT !.pc = "uploading", !.novelId = id, !.at = clock']]
    /\ UNCHANGED <<build, store, last, alone>>

\* part_002: the body has been read and the handler runs up to Chapter.create.
PostChapterUploaded(c) ==
    /\ req[c].pc = "uploading"
    /\ SanitizedCreate(c, req[c])
    /\ UNCHANGED <<build, novels, clock, overlap, alone>>

\* part_002: Novel.findByIdAndUpdate with the rollup, then the response;
\* req.headers.accept.includes throws when the request has no Accept header.
PostChapterRollup(c) ==
    /\ req[c].pc = "rollup"
    /\ \E hdr \in Headers :
         LET r == req[c]
             found == r.novelId \in NovelIds /\ novels[r.novelId].exists
         IN  /\ novels' = IF found
                          THEN [novels EXCEPT ![r.novelId].updatedAt = clock,
                                              ![r.novelId].lastChapter = LastChapter(r.made, clock)]
                          ELSE novels
             /\ Answer(c, Answered("chapters", [r EXCEPT !.hdr = hdr], r.given, r.made, NoFrame,
                                   CASE hdr \in {"xhr", "json"} -> "json_ok"
                                     [] hdr = "html" -> "redirect"
                                     [] OTHER -> "text_error"))
    /\ UNCHANGED <<build, chapters, nextId, clock, overlap, alone>>

(***************************************************************************)
(* DELETE /chapter/:id: Chapter.findByIdAndDelete, then the redirect to    *)
(* chapter.novelId, which throws outside any try block when no chapter was *)
(* found: the request is left without a response.                          *)
(***************************************************************************)
\* A handler that writes the highest remaining chapter into the rollup.
DeleteChapterRecomputing(c) ==
    /\ \E role \in Roles : MayWriteChapters(build, role)
    /\ Arrive(c)
    /\ \E ch \in chapters :
         LET rest == {x \in chapters \ {ch} : x.novelId = ch.novelId}
             top == CHOOSE x \in rest : \A y \in rest : y.chapterNumber <= x.chapterNumber
         IN  /\ chapters' = chapters \ {ch}
             /\ novels' = IF ch.novelId \in NovelIds /\ rest # {}
                          THEN [novels EXCEPT ![ch.novelId].lastChapter = LastChapter(top, clock')]
                          ELSE novels
             /\ last' = Answered("chapter_delete",
                                 [IdleRequest EXCEPT !.novelId = ch.novelId, !.at = clock'],
                                 Undefined, ch, NoFrame, "redirect")
    /\ UNCHANGED <<build, nextId, req, alone>>

DeleteChapter(c) ==
    /\ \E role \in Roles : MayWriteChapters(build, role)
    /\ Arrive(c)
    /\ \/ \E ch \in chapters :
            /\ chapters' = chapters \ {ch}
            /\ last' = Answered("chapter_delete",
                                [IdleRequest EXCEPT !.novelId = ch.novelId, !.at = clock'],
                                Undefined, ch, NoFrame, "redirect")
       \/ /\ UNCHANGED chapters
          /\ last' = Answered("chapter_delete", [IdleRequest EXCEPT !.at = clock'],
                              Undefined, NoChapter, NoFrame, "no_response")
    /\ UNCHANGED <<build, novels, nextId, req, alone>>

(***************************************************************************)
(* DELETE /novel/:id: Novel.findByIdAndDelete, then Chapter.deleteMany.    *)
(***************************************************************************)
\* requireAdmin (server.js, part_002), no guard (part_001)
MayDeleteNovel(b, role) == b = "part_001b" \/ role = "admin"

DeleteNovel(c) ==
    /\ \E role \in Roles :
         /\ MayDeleteNovel(build, role)
         /\ au' = [au EXCEPT !.by = role, !.route = "novel_delete"]
    /\ Arrive(c)
    /\ \E id \in RequestIds :
         /\ novels' = IF id \in NovelIds THEN [novels EXCEPT ![id].exists = FALSE] ELSE novels
         /\ req' = [req EXCEPT ![c] =
                      [IdleRequest EXCEPT !.pc = "deleting", !.novelId = id, !.at = clock']]
    /\ UNCHANGED <<build, chapters, nextId, last, rw, tj, sj, favs, viewing, catalog>>

DeleteNovelChapters(c) ==
    /\ req[c].pc = "deleting"
    /\ chapters' = {ch \in chapters : ch.novelId # req[c].novelId}
    /\ Answer(c, Answered("novel", req[c], Undefined, NoChapter, NoFrame, "redirect"))
    /\ UNCHANGED <<build, novels, nextId, clock, overlap, alone>>

(***************************************************************************)
(* PUT /chapter/:id: one findByIdAndUpdate, then the response.             *)
(***************************************************************************)
\* Bodies of chapter edits: the new translatedContent.
EditForms == {HtmlStr(Dirty), HtmlStr(<<>>)}

\* The content the update document carries for a chapter: part_002 sanitizes
\* a non-empty translatedContent and leaves an empty one out of the update;
\* the other iterations pass the body on as it is.
EditedContent(b, old, new) ==
    IF b = "part_002"
    THEN IF new.doc # <<>> THEN HtmlStr(sanitizeContent(new)) ELSE old
    ELSE new

\* The chapterNumber and title of an edit: both absent, or both given.
EditChanges ==
    {[number |-> Undefined, title |-> NullStr],
     [number |-> Num(GapNumber), title |-> Str(<<"X">>)]}

PutChapter(c) ==
    /\ \E role \in Roles : MayWriteChapters(build, role)
    /\ Arrive(c)
    /\ \E ch \in chapters, new \in EditForms, change \in EditChanges, hdr \in {"json", "html"} :
         LET edited == [ch EXCEPT !.translatedContent = EditedContent(build, @, new),
                                  !.chapterNumber =
                                      IF change.number.t = "num" THEN change.number.v ELSE @,
                                  !.title =
                                      IF TruthyStr(change.title) THEN GivenTitle(change.title.s)
                                      ELSE @]
         IN  /\ chapters' = (chapters \ {ch}) \cup {edited}
             /\ last' = Answered("chapter", [IdleRequest EXCEPT !.novelId = ch.novelId, !.at = clock',
                                           !.hdr = hdr],
                                 Undefined, edited, NoFrame,
                                 IF hdr = "json" THEN "json_ok" ELSE "redirect")
    /\ UNCHANGED <<build, novels, nextId, req, alone>>

(***************************************************************************)
(* POST /novel/:id/favorite.  The handler loads the user, pushes or        *)
(* splices the novel id on the loaded array and saves.  Mongoose sends a   *)
(* push as $push (it appends to the stored array whatever that holds by    *)
(* then) and a splice as $set of the whole array, guarded by the version   *)
(* the document had when it was loaded (VersionError when that changed).   *)
(***************************************************************************)
UserIds == 1..NumUsers

NewUser == [favorites |-> <<>>, version |-> 0]

\* Array.prototype.indexOf, zero based, -1 when x is no element.
IndexOf(s, x) ==
    IF \E i \in 1..Len(s) : s[i] = x
    THEN (CHOOSE i \in 1..Len(s) : s[i] = x /\ \A j \in 1..(i - 1) : s[j] # x) - 1
    ELSE -1

\* s after s.splice(index, 1)
\* splice(index, 0): nothing is removed.
SpliceNothing(s, index) == s

Splice(s, index) == SubSeq(s, 1, index) \o SubSeq(s, index + 2, Len(s))

Contains(s, x) == \E i \in 1..Len(s) : s[i] = x

IdleToggle ==
    [pc |-> "idle", user |-> 0, novelId |-> 0, read |-> <<>>, version |-> 0, alone |-> TRUE]

TogglesInFlight == {d \in Slots : fq[d].pc # "idle"}

\* requireLogin: a request without a user in its session is redirected.
FavoriteDenied ==
    /\ clock < MaxToggles
    /\ clock' = clock + 1
    /\ UNCHANGED <<build, store, overlap, req, last, rw, tj, sj, extra>>

\* The request arrives in the first free slot; User.findById.
FavoriteRead(c) ==
    /\ fq[c].pc = "idle"
    /\ \A d \in Slots : d < c => fq[d].pc # "idle"
    /\ clock < MaxToggles
    /\ clock' = clock + 1
    /\ \E u \in UserIds, n \in RequestIds :
         fq' = [d \in Slots |->
                  IF d = c
                  THEN [pc |-> "saving", user |-> u, novelId |-> n,
                        read |-> users[u].favorites, version |-> users[u].version,
                        alone |-> TogglesInFlight = {}]
                  ELSE IF fq[d].pc # "idle" THEN [fq[d] EXCEPT !.alone = FALSE]
                  ELSE fq[d]]
    /\ UNCHANGED <<build, store, overlap, req, last, rw, tj, sj, users, ft, viewing, catalog, au>>

\* indexOf, push or splice, user.save(), then the response;
\* req.headers.accept.includes throws when there is no Accept header.
FavoriteSave(c) ==
    /\ fq[c].pc = "saving"
    /\ \E hdr \in Headers :
         LET r == fq[c]
             index == IndexOf(r.read, r.novelId)
             saved == index = -1 \/ users[r.user].version = r.version
             after == IF index = -1 THEN Append(users[r.user].favorites, r.novelId)
                      ELSE IF saved THEN Splice(r.read, index)
                      ELSE users[r.user].favorites
             resp == CASE ~saved -> "error500"
                       [] hdr \in {"xhr", "json"} -> "json_ok"
                       [] hdr = "html" -> "redirect"
                       [] OTHER -> "error500"
             t == [user |-> r.user, novelId |-> r.novelId, read |-> r.read,
                   stored |-> after, saved |-> saved, isFav |-> (index = -1),
                   resp |-> resp, alone |-> r.alone]
         IN  /\ users' = [users EXCEPT ![r.user] =
                            [favorites |-> after,
                             version |-> IF saved THEN @.version + 1 ELSE @.version]]
             /\ ft' = IF ft = <<>> THEN <<t>> ELSE <<ft[Len(ft)], t>>
    /\ fq' = [fq EXCEPT ![c] = IdleToggle]
    /\ UNCHANGED <<build, store, clock, overlap, req, last, rw, tj, sj, viewing, catalog, au>>

(***************************************************************************)
(* GET /novel/:id, the view counter.  express-session gives every request  *)
(* its own copy of the stored session and writes the copy back when the    *)
(* response ends.                                                          *)
(***************************************************************************)
SessionIds == 1..NumSessions

IdleDetail == [pc |-> "idle", session |-> 0, novelId |-> 0, viewed |-> {}, counts |-> FALSE]

\* server.js increments on every request; part_002 when the session's
\* viewedNovels does not include the novel.
CountsView(b, viewed, id) == b = "server" \/ id \notin viewed

\* The request arrives in the first free slot with its session loaded, and
\* decides whether it will increment.
DetailArrive(c) ==
    /\ build \in {"server", "part_002"}
    /\ dq[c].pc = "idle"
    /\ \A d \in Slots : d < c => dq[d].pc # "idle"
    /\ clock < MaxDetails
    /\ clock' = clock + 1
    /\ \E sid \in SessionIds, id \in RequestIds :
         dq' = [dq EXCEPT ![c] =
                  [pc |-> "loading", session |-> sid, novelId |-> id,
                   viewed |-> sessions[sid],
                   counts |-> CountsView(build, sessions[sid], id)]]
    /\ UNCHANGED <<build, store, overlap, req, last, rw, tj, sj, favs, catalog, sessions, incs, au>>

\* Novel.findByIdAndUpdate with $inc (or Novel.findById), the push on
\* viewedNovels, the page; the session is written back with the response.
DetailRespond(c) ==
    /\ dq[c].pc = "loading"
    /\ LET r == dq[c]
           found == r.novelId \in NovelIds /\ novels[r.novelId].exists
           inc == r.counts /\ found
       IN  /\ novels' = IF inc THEN [novels EXCEPT ![r.novelId].views = @ + 1] ELSE novels
           /\ incs' = IF inc THEN [incs EXCEPT ![r.session][r.novelId] = @ + 1] ELSE incs
           /\ sessions' = IF build = "part_002"
                          THEN [sessions EXCEPT ![r.session] =
                                  IF r.counts THEN r.viewed \cup {r.novelId} ELSE r.viewed]
                          ELSE sessions
    /\ dq' = [dq EXCEPT ![c] = IdleDetail]
    /\ UNCHANGED <<build, chapters, nextId, clock, overlap, req, last, rw, tj, sj, favs, catalog, au>>

\* Bodies of novel edits, as far as the view counter goes: the form's
\* fields only, or a views field as well.
NovelEditBodies == {Undefined} \cup {Num(v) : v \in 0..MaxViews}

\* PUT /novel/:id: Novel.findByIdAndUpdate(id, { ...req.body, tags, categories })
\* (server.js, part_002); part_001 updates title, description, customPrompt
\* and glossary only.
PutNovel ==
    /\ clock < MaxDetails
    /\ clock' = clock + 1
    /\ \E role \in Roles :
         /\ MayWriteNovels(build, role)
         /\ au' = [au EXCEPT !.by = role, !.route = "novel_put"]
    /\ \E id \in NovelIds, views \in NovelEditBodies :
         /\ novels[id].exists
         /\ novels' = [novels EXCEPT ![id].views =
                          IF views.t = "num" /\ build # "part_001b" THEN views.v ELSE @]
    /\ UNCHANGED <<build, chapters, nextId, overlap, req, last, rw, tj, sj, favs, viewing,
                   catalog>>

\* A novel as Novel.create stores it; views is a path of the schema, which
\* a body passed on whole can set.
NewNovel(views, now) ==
    [exists |-> TRUE, updatedAt |-> now,
     views |-> IF views.t = "num" THEN views.v ELSE 0, lastChapter |-> NoLastChapter]

\* POST /novels: Novel.create(req.body) (part_001), Novel.create with the
\* fields picked from the body (server.js: the whole body; part_002: title,
\* description, categories, tags, author).  The store has room for
\* NumNovels novels: the new document takes a free place.
PostNovel ==
    /\ clock < MaxDetails
    /\ clock' = clock + 1
    /\ \E role \in Roles :
         /\ MayWriteNovels(build, role)
         /\ au' = [au EXCEPT !.by = role, !.route = "novel_create"]
    /\ \E id \in NovelIds, views \in NovelEditBodies :
         /\ ~novels[id].exists
         /\ \A ch \in chapters : ch.novelId # id
         /\ novels' = [novels EXCEPT ![id] =
                          NewNovel(IF build = "part_002" THEN Undefined ELSE views, clock')]
    /\ UNCHANGED <<build, chapters, nextId, overlap, req, last, rw, tj, sj, favs, viewing,
                   catalog>>

\* The role a registration form may ask for in a body field of its own.
AskedRoles == Roles \ {"anonymous"}

\* POST /register: User.create({ username, password, role: 'reader' }); a
\* username already taken ends in the catch block.
Register ==
    \E name \in UserIds, asked \in AskedRoles :
       /\ \A a \in au.accounts : a.username # name
       /\ au' = [au EXCEPT !.accounts = @ \cup {[username |-> name, role |-> "reader"]}]
       /\ UNCHANGED <<build, store, clock, overlap, req, last, rw, tj, sj, favs, viewing,
                      catalog>>

(***************************************************************************)
(* GET /: pagination.  The matching novels are numbered 1..n in the order  *)
(* of the sort key; pg.tie = k > 0 says that novels k and k + 1 have equal *)
(* sort keys.  MongoDB returns documents with equal keys in either order,  *)
(* and not in the same order for every query.                              *)
(***************************************************************************)
\* const limit = 12
PageSize == 12

\* Math.ceil(a / b) for a >= 0, b > 0
Ceil(a, b) == (a + b - 1) \div b

Min(a, b) == IF a < b THEN a ELSE b

\* The page numbers requested.
Pages == 1..(Ceil(MaxMatching, PageSize) + 1)

NotFetched == [fetched |-> FALSE, items |-> {}, totalPages |-> 0]

\* The novel at a position of the sorted result, the tied pair swapped or not.
ItemAt(pos, tie, swapped) ==
    IF swapped /\ tie > 0 /\ pos = tie THEN tie + 1
    ELSE IF swapped /\ tie > 0 /\ pos = tie + 1 THEN tie
    ELSE pos

\* Novel.find(filter).sort(sortConfig).skip(skip).limit(limit)
PageItems(n, page, tie, swapped) ==
    LET skip == (page - 1) * PageSize
    IN  {ItemAt(pos, tie, swapped) : pos \in (skip + 1)..Min(skip + PageSize, n)}

\* One listing request: countDocuments, totalPages, the page.
ListPage ==
    /\ \E page \in Pages, swapped \in BOOLEAN :
         /\ swapped => pg.tie > 0
         /\ pg' = [pg EXCEPT !.seen[page] =
                     [fetched |-> TRUE,
                      items |-> PageItems(pg.n, page, pg.tie, swapped),
                      totalPages |-> Ceil(pg.n, PageSize)]]
    /\ UNCHANGED <<build, store, clock, overlap, req, last, rw, tj, sj, favs, viewing, au,
                   meta, lq, cs>>

(***************************************************************************)
(* GET /: the filter and the recommended novel.  Titles and search terms   *)
(* are sequences of characters; in a search term "." is the regular        *)
(* expression metacharacter that matches any character.                    *)
(***************************************************************************)
LowerCase(ch) == IF ch = "A" THEN "a" ELSE ch

\* The titles, categories, statuses, tags and covers novels have.
ListedTitles == {<<"A", "b">>, <<"b">>}
ListedMeta ==
    [title : ListedTitles, categories : {{"c1"}, {"c1", "c2"}},
     status : {"On Going", "Completed"}, tags : {{}, {"t1"}, {"t1", "t2"}},
     imageUrl : {"", "cover"}]

NewMeta ==
    [title |-> <<"b">>, categories |-> {"c1"}, status |-> "On Going", tags |-> {},
     imageUrl |-> ""]

\* req.query of a listing request: q, category, status, tag, page; ""
\* stands for an omitted category or status.  server.js reads q and
\* category only.
SearchTerms ==
    {NullStr} \cup {Str(t) : t \in SeqsUpTo({"a", "b", "."}, MaxQueryLen) \ {<<>>}}

Queries(b) ==
    IF b = "server"
    THEN [q : SearchTerms, category : {"", "c2"}, status : {""}, tags : {{}}, page : {1}]
    ELSE [q : SearchTerms, category : {"", "c2"}, status : {"", "Completed"},
          tags : {{}, {"t1"}, {"t1", "t2"}}, page : {1, 2}]

\* { $regex: query, $options: 'i' }: the pattern is found somewhere in the
\* title, "." matching any character, letters matching in either case.
RegexFound(title, pattern) ==
    \E i \in 0..(Len(title) - Len(pattern)) :
       \A j \in 1..Len(pattern) :
          pattern[j] = "." \/ LowerCase(pattern[j]) = LowerCase(title[i + j])

\* The filter object of the request, applied to one novel.
Matches(b, doc, query) ==
    /\ TruthyStr(query.q) => RegexFound(doc.title, query.q.s)
    /\ query.category # "" => query.category \in doc.categories
    /\ b # "server" =>
          /\ query.status # "" => doc.status = query.status
          /\ query.tags # {} => query.tags \subseteq doc.tags

Existing == {n \in NovelIds : novels[n].exists}

\* The novels the listing returns: all that match (server.js), or the page
\* of them (part_002; the store holds fewer novels than a page).
Returned(b, query) ==
    LET matching == {n \in Existing : Matches(b, meta[n], query)}
    IN  IF b # "server" /\ (query.page - 1) * PageSize >= Cardinality(matching)
        THEN {}
        ELSE matching

FilterActive(query) ==
    TruthyStr(query.q) \/ query.category # "" \/ query.tags # {} \/ query.status # ""

\* The novels the Recommended Logic may pick, 0 standing for null:
\* Math.random() chooses among the novels with a cover; server.js chooses
\* among all novels when none has a cover.
RecommendedChoices(b, query) ==
    LET covered == {n \in Existing : meta[n].imageUrl # ""}
    IN  IF b = "server"
        THEN IF Existing # {} /\ ~TruthyStr(query.q) /\ query.category = ""
             THEN IF covered # {} THEN covered ELSE Existing
             ELSE {0}
        ELSE IF ~FilterActive(query) /\ query.page = 1 /\ covered # {}
             THEN covered
             ELSE {0}

NoListing ==
    [answered |-> FALSE, query |-> CHOOSE x \in Queries("server") : TRUE,
     returned |-> {}, recommended |-> 0]

\* One listing request, from the filter to res.render.
ListNovels ==
    /\ build \in {"server", "part_002"}
    /\ ~lq.answered
    /\ \E query \in Queries(build) :
         \E rec \in RecommendedChoices(build, query) :
            lq' = [answered |-> TRUE, query |-> query,
                   returned |-> Returned(build, query), recommended |-> rec]
    /\ UNCHANGED <<build, store, clock, overlap, req, last, rw, tj, sj, favs, viewing, au,
                   pg, meta, cs>>

(***************************************************************************)
(* GET /novel/:id, the chapter listing: qChapter, page.  A query parameter *)
(* is a text (a sequence of characters), empty when the request has none.  *)
(* A chapter number is counted in halves, so that 3 stands for 1.5.        *)
(***************************************************************************)
Digits == <<"0", "1", "2", "3", "4", "5", "6", "7", "8", "9">>

IsDigit(ch) == \E i \in 1..Len(Digits) : Digits[i] = ch

DigitValue(ch) == (CHOOSE i \in 1..Len(Digits) : Digits[i] = ch) - 1

AllDigits(t) == \A i \in 1..Len(t) : IsDigit(t[i])

RECURSIVE DigitsValue(_)
DigitsValue(t) ==
    IF t = <<>> THEN 0
    ELSE 10 * DigitsValue(SubSeq(t, 1, Len(t) - 1)) + DigitValue(t[Len(t)])

\* The digits a text starts with.
LeadingDigits(t) ==
    LET k == CHOOSE n \in 0..Len(t) :
                /\ AllDigits(SubSeq(t, 1, n))
                /\ n < Len(t) => ~IsDigit(t[n + 1])
    IN  SubSeq(t, 1, k)

\* parseInt(text): an optional sign, then the digits up to the first
\* character that is none; NaN when there is no digit.
ParseInt(t) ==
    LET negative == t # <<>> /\ t[1] = "-"
        body == IF negative THEN Tail(t) ELSE t
        digits == LeadingDigits(body)
    IN  [nan |-> digits = <<>>,
         v |-> IF negative THEN 0 - DigitsValue(digits) ELSE DigitsValue(digits)]

\* isNaN(text) of a text that is not empty: Number(text) is a number when
\* the text is an optional sign, digits and at most one point among them.
IsNaN(t) ==
    LET body == IF t # <<>> /\ t[1] = "-" THEN Tail(t) ELSE t
    IN  ~ \E k \in 0..Len(body) :
             /\ AllDigits(SubSeq(body, 1, k))
             /\ k < Len(body) =>
                   /\ body[k + 1] = "."
                   /\ AllDigits(SubSeq(body, k + 2, Len(body)))
             /\ \E i \in 1..Len(body) : IsDigit(body[i])

\* parseInt(req.query.page) || 1
EffectivePage(param) ==
    LET n == ParseInt(param)
    IN  IF n.nan \/ n.v = 0 THEN 1 ELSE n.v

ChapterPageSize == 50

\* The text of a chapter number.
NumberText(h) ==
    <<Digits[(h \div 2) + 1]>> \o (IF h % 2 = 1 THEN <<".", "5">> ELSE <<>>)

\* The chapters a store may hold: of any novel, numbered 1, 1.5, 2, ...,
\* with the default title of the number or a title of their own.
ChapterHalves == 2..MaxHalf

ListedChapters ==
    [novelId : RequestIds, h : ChapterHalves,
     title : {<<"t">> \o NumberText(h) : h \in ChapterHalves} \cup {<<"X">>}]

\* qChapter and page of a request.
ChapterSearches == {<<>>, <<"X">>, <<"t">>} \cup {NumberText(h) : h \in ChapterHalves}

PageParams == {<<>>, <<"X">>, <<"0">>, <<"2">>, <<"-", "1">>, <<"1", ".", "5">>}

\* chapterFilter applied to one chapter.
ChapterMatches(doc, novelId, chapterSearch) ==
    /\ doc.novelId = novelId
    /\ chapterSearch # <<>> =>
          IF ~IsNaN(chapterSearch)
          THEN \/ RegexFound(doc.title, chapterSearch)
               \/ /\ ~ParseInt(chapterSearch).nan
                  /\ doc.h = 2 * ParseInt(chapterSearch).v
          ELSE RegexFound(doc.title, chapterSearch)

NoChapterListing ==
    [docs |-> {}, answered |-> FALSE, novelId |-> 0, chapterSearch |-> <<>>, param |-> <<>>,
     page |-> 1, skip |-> 0, found |-> {}, resp |-> "none",
     home |-> [asked |-> FALSE, param |-> <<>>, page |-> 1, skip |-> 0]]

\* One listing request: the filter, countDocuments, find().skip().limit().
\* The store rejects a negative skip and the catch block redirects; the
\* chapters are fewer than a page.
ListChapters ==
    /\ ~cs.answered
    /\ \E novelId \in RequestIds, chapterSearch \in ChapterSearches, param \in PageParams :
         LET page == EffectivePage(param)
             skip == (page - 1) * ChapterPageSize
             matching == {doc \in cs.docs : ChapterMatches(doc, novelId, chapterSearch)}
         IN  cs' = [cs EXCEPT !.answered = TRUE, !.novelId = novelId,
                              !.chapterSearch = chapterSearch, !.param = param,
                              !.page = page, !.skip = skip,
                              !.found = IF skip = 0 THEN matching ELSE {},
                              !.resp = IF skip < 0 THEN "redirect_home" ELSE "page"]
    /\ UNCHANGED <<build, store, clock, overlap, req, last, rw, tj, sj, favs, viewing, au,
                   pg, meta, lq>>

\* GET /: page and skip of the novel listing, as the store receives them.
ListNovelsSkip ==
    /\ ~cs.home.asked
    /\ \E param \in PageParams :
         LET page == EffectivePage(param)
         IN  cs' = [cs EXCEPT !.home = [asked |-> TRUE, param |-> param, page |-> page,
                                        skip |-> (page - 1) * PageSize]]
    /\ UNCHANGED <<build, store, clock, overlap, req, last, rw, tj, sj, favs, viewing, au,
                   pg, meta, lq>>

\* The values of these variables while no route of this part has run.
ExtraIdle ==
    /\ users = [u \in UserIds |-> NewUser]
    /\ fq = [c \in Slots |-> IdleToggle]
    /\ ft = <<>>
    /\ sessions = [sid \in SessionIds |-> {}]
    /\ dq = [c \in Slots |-> IdleDetail]
    /\ incs = [sid \in SessionIds |-> [n \in NovelIds |-> 0]]
    /\ pg = [n |-> 0, tie |-> 0, seen |-> [p \in Pages |-> NotFetched]]
    /\ meta = [n \in NovelIds |-> NewMeta]
    /\ lq = NoListing
    /\ au = NoActor
    /\ cs = NoChapterListing

(***************************************************************************)
(* The server and its store.                                               *)
(***************************************************************************)
\* Chapter numbers a novel may already hold when the server starts: none,
\* or 1..MaxNum with a gap.
InitialNumberSets == {{}, (1..MaxNum) \ {GapNumber}}

InitialChapters(S) ==
    {Chapter(Cardinality({m \in S : m <= n}), 1, n, DefaultTitle(Num(n)), HtmlStr(Plain)) :
        n \in S}

\* The novels exist; where the iteration keeps a rollup, the first novel's
\* rollup is the chapter created last, the one with the highest number.
InitialNovels(b, S) ==
    [n \in NovelIds |->
        [exists |-> TRUE, updatedAt |-> 0, views |-> 0,
         lastChapter |->
            IF b = "part_002" /\ n = 1 /\ S # {}
            THEN LastChapter(CHOOSE ch \in InitialChapters(S) : ch.chapterNumber = SetMax(S), 0)
            ELSE NoLastChapter]]

\* The values of the variables of the stand-alone specifications while
\* the server runs.
NotAlone ==
    /\ rw = [f |-> NoFrame, hist |-> <<>>]
    /\ tj = [pc |-> "none", reply |-> CHOOSE d \in ProviderReplies : TRUE, nextNumber |-> 0,
             number |-> 0, title |-> DefaultTitle(NoPrefix)]
    /\ sj = [pc |-> "none", content |-> NoContent, out |-> <<>>]

Init ==
    /\ build \in Builds
    /\ \E S \in InitialNumberSets :
         /\ chapters = InitialChapters(S)
         /\ novels = InitialNovels(build, S)
         /\ nextId = Cardinality(S) + 1
    /\ clock = 0
    /\ overlap = FALSE
    /\ req = [c \in Slots |-> IdleRequest]
    /\ last = NoAnswer
    /\ NotAlone
    /\ ExtraIdle

Next ==
    \/ \E c \in Slots : PostChapterDenied(c)
    \/ \E c \in Slots : PostChapterRead(c)
    \/ \E c \in Slots : PostChapterManualCreate(c)
    \/ \E c \in Slots : PostChapterFindNovel(c)
    \/ \E c \in Slots : PostChapterProviderCall(c)
    \/ \E c \in Slots : PostChapterSleepDone(c)
    \/ \E c \in Slots : PostChapterSanitizedCreate(c)
    \/ \E c \in Slots : PostChapterRollup(c)
    \/ \E c \in Slots : PutChapter(c)

Spec == Init /\ [][Next]_vars

(***************************************************************************)
(* The pure parts on their own.  While one of them runs, the server is     *)
(* idle on an empty store.                                                 *)
(***************************************************************************)
ServerIdle ==
    /\ chapters = {}
    /\ novels = InitialNovels(build, {})
    /\ nextId = 1
    /\ clock = 0
    /\ overlap = FALSE
    /\ req = [c \in Slots |-> IdleRequest]
    /\ last = NoAnswer

server == <<build, novels, chapters, nextId, clock, overlap, req, last>>

\* The iterations that hold generateWithRetry and the auto mode.
AutoBuilds == {"server", "part_001b"}

(***************************************************************************)
(* generateWithRetry(prompt, retries): rw.f is the frame, rw.hist the      *)
(* outcomes of the provider calls made so far.                             *)
(***************************************************************************)
InitRetry ==
    /\ ExtraIdle
    /\ build \in AutoBuilds
    /\ ServerIdle
    /\ rw \in {[f |-> NewFrame(n), hist |-> <<>>] : n \in 1..MaxAttempts}
    /\ tj = [pc |-> "none", reply |-> CHOOSE d \in ProviderReplies : TRUE, nextNumber |-> 0,
             number |-> 0, title |-> DefaultTitle(NoPrefix)]
    /\ sj = [pc |-> "none", content |-> NoContent, out |-> <<>>]

RetryProviderCall ==
    /\ rw.f.status = "calling"
    /\ \E outcome \in Outcomes :
         rw' = [f |-> ProviderCall(build, rw.f, outcome), hist |-> Append(rw.hist, outcome)]
    /\ UNCHANGED <<server, tj, sj, extra>>

RetrySleepDone ==
    /\ rw.f.status = "sleeping"
    /\ rw' = [rw EXCEPT !.f = SleepDone(@)]
    /\ UNCHANGED <<server, tj, sj, extra>>

NextRetry == RetryProviderCall \/ RetrySleepDone

SpecRetry == InitRetry /\ [][NextRetry]_vars

(***************************************************************************)
(* The number and title auto mode stores for a reply: tj.reply is the      *)
(* parsed reply, tj.nextNumber the number the handler read.                *)
(***************************************************************************)
TitleReplies ==
    {[chapterNumber |-> Null, title |-> t, originalTitle |-> o,
      translatedContent |-> HtmlStr(Plain)] :
        t \in {NullStr} \cup {Str(s) : s \in SeqsUpTo(TitleChars, MaxTitleLen)},
        o \in {NullStr, Str(<<"M", "X">>)}}

InitTitle ==
    /\ ExtraIdle
    /\ build \in AutoBuilds
    /\ ServerIdle
    /\ tj \in {[pc |-> "reply", reply |-> d, nextNumber |-> MaxNum + 1, number |-> 0,
                title |-> DefaultTitle(NoPrefix)] : d \in TitleReplies}
    /\ rw = [f |-> NoFrame, hist |-> <<>>]
    /\ sj = [pc |-> "none", content |-> NoContent, out |-> <<>>]

DeriveTitle ==
    /\ tj.pc = "reply"
    /\ LET n == FinalNumber(build, tj.reply, tj.nextNumber)
       IN  tj' = [tj EXCEPT !.pc = "stored", !.number = n,
                            !.title = FinalTitle(build, tj.reply, n)]
    /\ UNCHANGED <<server, rw, sj, extra>>

NextTitle == DeriveTitle

SpecTitle == InitTitle /\ [][NextTitle]_vars

(***************************************************************************)
(* sanitizeContent on its own: sj.content is the input, sj.out the output. *)
(***************************************************************************)
HtmlTokens ==
    {Text,
     Open("b", {<<"onclick", "v">>}, {}),
     Close("b"),
     Open("script", {<<"src", "https">>}, {}),
     Close("script"),
     Open("img", {<<"src", "javascript">>, <<"alt", "v">>, <<"onerror", "v">>}, {}),
     Open("img", {<<"src", "https">>, <<"style", "v">>}, {<<"width", "match">>}),
     Open("p", {<<"style", "v">>, <<"align", "v">>, <<"class", "v">>},
          {<<"color", "match">>, <<"position", "match">>, <<"font-size", "nomatch">>}),
     Close("p"),
     Open("a", {<<"href", "https">>}, {}),
     Open("h4", {}, {})}

SanitizerInputs ==
    {NoContent} \cup {HtmlStr(d) : d \in SeqsUpTo(HtmlTokens, MaxDocLen)}

InitSanitize ==
    /\ ExtraIdle
    /\ build = "part_002"
    /\ ServerIdle
    /\ sj \in {[pc |-> "input", content |-> x, out |-> <<>>] : x \in SanitizerInputs}
    /\ rw = [f |-> NoFrame, hist |-> <<>>]
    /\ tj = [pc |-> "none", reply |-> CHOOSE d \in ProviderReplies : TRUE, nextNumber |-> 0,
             number |-> 0, title |-> DefaultTitle(NoPrefix)]

Sanitize ==
    /\ sj.pc = "input"
    /\ sj' = [sj EXCEPT !.pc = "output", !.out = sanitizeContent(sj.content)]
    /\ UNCHANGED <<server, rw, tj, extra>>

NextSanitize == Sanitize

SpecSanitize == InitSanitize /\ [][NextSanitize]_vars

(***************************************************************************)
(* Properties of POST /novel/:id/chapters, checked under Spec.             *)
(***************************************************************************)
\* The chapters the store held before the answered request made its own.
ChaptersBefore(a) == {ch \in chapters : ch.id < a.made.id}

\* The answered request was a chapter creation that stored a chapter.
Created(a) == a.route = "chapters" /\ a.made # NoChapter

\* C1: a chapter created in manual mode with no chapter number supplied is
\* stored with the novel's highest existing chapter number plus one, or with
\* 1 when the novel has no chapters (no other request being in flight).
C1_ManualNumberIsNext ==
    (Created(last) /\ last.mode = "manual" /\ last.given.t # "num" /\ ~overlap)
        => last.made.chapterNumber = NextNumber(ChaptersBefore(last), last.novelId)

\* C2: in auto mode the stored chapter number is the provider's chapterNumber
\* whenever that is present and not null, 0 included, and the next number of
\* the novel otherwise.
C2_AutoNumberFromProvider ==
    (Created(last) /\ last.mode = "auto" /\ ~overlap)
        => last.made.chapterNumber =
              IF last.given.t = "num" THEN last.given.v
              ELSE NextNumber(ChaptersBefore(last), last.novelId)

\* C4: after a successful chapter creation the novel's updatedAt has been
\* refreshed and its lastChapter holds the number and title of the chapter
\* that was created.
C4_RollupAfterCreate ==
    (Created(last) /\ last.resp \in {"json_ok", "redirect"} /\ last.novelId \in NovelIds)
        => LET novel == novels[last.novelId]
           IN  /\ novel.updatedAt >= last.at
               /\ novel.lastChapter.set
               /\ novel.lastChapter.chapterNumber = last.made.chapterNumber
               /\ novel.lastChapter.title = last.made.title

\* C8: an auto mode request without a file and without raw text fails, the
\* provider is not invoked for it and it creates no chapter.
C8_NoContentFailsEarly ==
    (last.route = "chapters" /\ last.mode = "auto" /\ ~last.rawText)
        => /\ last.resp \in {"json_error", "text_error"}
           /\ last.frame.calls = 0
           /\ last.made = NoChapter

\* What sanitizeContent can return.
SanitizerOutputs == {HtmlStr(sanitizeContent(x)) : x \in SanitizerInputs}

\* C9: the translatedContent of every stored chapter is an output of
\* sanitizeContent, whether the chapter was created in manual mode, created
\* in auto mode, or edited.
C9_StoredContentSanitized ==
    \A ch \in chapters : ch.translatedContent \in SanitizerOutputs

(***************************************************************************)
(* Properties of generateWithRetry, checked under SpecRetry.               *)
(***************************************************************************)
AllRate(h) == \A k \in 1..Len(h) : h[k] = "rate"

\* C5: with three attempts allowed, when the first two provider calls fail
\* with a retryable error the wrapper goes on to a third call, and when that
\* one succeeds it returns its result, after exactly 3 calls.
C5_ThirdAttemptReturns ==
    (rw.f.retries = 3 /\ rw.hist # <<>>
       /\ \A k \in 1..Len(rw.hist) : k <= 2 => rw.hist[k] = "rate")
        => /\ Len(rw.hist) <= 2 => rw.f.status \in {"sleeping", "calling"}
           /\ (Len(rw.hist) = 3 /\ rw.hist[3] = "ok")
                 => rw.f.status = "returned" /\ rw.f.calls = 3 /\ rw.f.sleeps = 2

C5_Witness ==
    /\ rw.hist = <<"rate", "rate", "ok">>
    /\ rw.f.retries = 3
    /\ rw.f.status = "returned"

\* C6: when the first provider call fails with an error that is not a rate
\* limit, quota or unavailability error, the wrapper throws that error after
\* this one call, without a sleep and without a second attempt.
C6_OtherErrorPropagatesAtOnce ==
    (rw.hist # <<>> /\ rw.hist[1] = "other")
        => /\ rw.f.status = "thrown"
           /\ rw.f.thrown = 1
           /\ rw.f.calls = 1
           /\ rw.f.sleeps = 0

\* C7: the wrapper never calls the provider more often than the attempts it
\* is allowed, and when every attempt fails with a retryable error it throws
\* the error of the last attempt.
C7_BoundedAttemptsLastErrorThrown ==
    /\ rw.f.calls <= rw.f.retries
    /\ rw.f.calls = Len(rw.hist)
    /\ (AllRate(rw.hist) /\ Len(rw.hist) = rw.f.retries)
          => rw.f.status = "thrown" /\ rw.f.thrown = rw.f.retries
    /\ (AllRate(rw.hist) /\ Len(rw.hist) < rw.f.retries)
          => rw.f.status \in {"sleeping", "calling"}

C7_Witness ==
    /\ rw.f.retries > 1
    /\ Len(rw.hist) = rw.f.retries
    /\ AllRate(rw.hist)
    /\ rw.f.status = "thrown"

(***************************************************************************)
(* Properties of the auto mode title, checked under SpecTitle.             *)
(***************************************************************************)
MarkedTitle == <<"M", "D", "W", "C", "X">>

\* C3: the stored title is the default phrase for the final number when the
\* cleaned candidate is empty and that phrase, a colon and the cleaned
\* candidate otherwise; the candidate is the provider's title, else its
\* originalTitle; marker, number, counter word, colon and text give the
\* phrase, a colon and the text; the cleaned part never starts with a
\* chapter marker.
C3_TitleDerivation ==
    tj.pc = "stored"
        => /\ tj.title.pre = Num(tj.number)
           /\ tj.title.sep = (tj.title.text # <<>>)
           /\ tj.title.sep => Head(tj.title.text) # "M"
           /\ tj.reply.title = Str(MarkedTitle)
                 => tj.title = PrefixedTitle(Num(tj.number), <<"X">>)
           /\ (~TruthyStr(tj.reply.title) /\ TruthyStr(tj.reply.originalTitle))
                 => tj.title.sep

(***************************************************************************)
(* Properties of sanitizeContent, checked under SpecSanitize.              *)
(***************************************************************************)
\* The allow-lists as the specification states them.
ListedTags ==
    {"b", "i", "em", "strong", "u", "p", "br", "hr", "img", "div", "span",
     "center", "h1", "h2", "h3"}

ListedAttributes(tag) ==
    CASE tag = "img" -> {"src", "alt", "style", "width", "height"}
      [] tag \in {"p", "div"} -> {"style", "align"}
      [] tag = "span" -> {"style"}
      [] OTHER -> {}

ListedStyleProps == {"color", "text-align", "font-size"}

HasTag(doc, tag) == \E k \in 1..Len(doc) : doc[k].k # "text" /\ doc[k].tag = tag

\* C10: the output of sanitizeContent has no tag outside the allow-list, no
\* attribute outside the allow-list of its tag and no style property outside
\* color, text-align and font-size; it has no script tag; an empty or
\* undefined input gives the empty string.
C10_OutputWithinAllowLists ==
    sj.pc = "output"
        => /\ \A k \in 1..Len(sj.out) :
                LET tok == sj.out[k]
                IN  tok.k # "text"
                        => /\ tok.tag \in ListedTags
                           /\ \A a \in tok.attrs : a[1] \in ListedAttributes(tok.tag)
                           /\ \A d \in tok.styles : d[1] \in ListedStyleProps
           /\ ~HasTag(sj.out, "script")
           /\ (sj.content.t # "string" \/ sj.content.doc = <<>>) => sj.out = <<>>

C10_Witness ==
    /\ sj.pc = "output"
    /\ HasTag(sj.content.doc, "script")
    /\ HasTag(sj.content.doc, "p")
    /\ \E k \in 1..Len(sj.out) : sj.out[k].k = "open" /\ sj.out[k].styles # {}

\* C11: sanitizeContent is idempotent: sanitizing its own output gives that
\* output again.
C11_SanitizeIdempotent ==
    sj.pc = "output" => sanitizeContent(HtmlStr(sj.out)) = sj.out

C11_Witness ==
    /\ sj.pc = "output"
    /\ sj.out # <<>>
    /\ sj.out # sj.content.doc
    /\ \E k \in 1..Len(sj.content.doc) :
          /\ sj.content.doc[k].k = "open"
          /\ sj.content.doc[k].tag \in AllowedTags
          /\ sj.content.doc[k].styles # {}

(***************************************************************************)
(* The favorite toggle on its own.                                         *)
(***************************************************************************)
InitFavorite ==
    /\ build = "part_002"
    /\ ServerIdle
    /\ NotAlone
    /\ ExtraIdle

NextFavorite ==
    \/ FavoriteDenied
    \/ \E c \in Slots : FavoriteRead(c)
    \/ \E c \in Slots : FavoriteSave(c)

SpecFavorite == InitFavorite /\ [][NextFavorite]_vars

\* C12: two successive toggles of the same user and novel, neither of them
\* overlapping another toggle, leave the novel's membership of the user's
\* favorites as it was before the first.
C12_ToggleTwiceRestores ==
    (Len(ft) = 2 /\ ft[1].alone /\ ft[2].alone
       /\ ft[1].user = ft[2].user /\ ft[1].novelId = ft[2].novelId)
        => Contains(ft[2].stored, ft[2].novelId) = Contains(ft[1].read, ft[1].novelId)

\* C13: a toggle that overlaps no other appends the novel when it is absent
\* and removes its first occurrence when present; the isFav it returns says
\* whether the novel is in the stored list after the toggle; the toggle does
\* not fail to save.
C13_ToggleAppendsOrRemoves ==
    (ft # <<>> /\ ft[Len(ft)].alone)
        => LET t == ft[Len(ft)]
               index == IndexOf(t.read, t.novelId)
           IN  /\ t.saved
               /\ index = -1 => t.stored = Append(t.read, t.novelId)
               /\ index # -1 => t.stored = Splice(t.read, index)
               /\ t.resp = "json_ok" => t.isFav = Contains(t.stored, t.novelId)

(***************************************************************************)
(* The view counter: novel detail requests and novel edits.                *)
(***************************************************************************)
InitViews ==
    /\ build \in {"server", "part_002"}
    /\ ServerIdle
    /\ NotAlone
    /\ ExtraIdle

NextViews ==
    \/ \E c \in Slots : DetailArrive(c)
    \/ \E c \in Slots : DetailRespond(c)
    \/ PutNovel

SpecViews == InitViews /\ [][NextViews]_vars

\* C14: whatever the sequence and interleaving of novel detail requests, a
\* session causes at most one increment of a novel's view counter.
C14_OneViewPerSession ==
    \A sid \in SessionIds, n \in NovelIds : incs[sid][n] <= 1

\* C15: no step of the server lowers a novel's view counter, novel edits
\* included.
C15_ViewsNeverDecrease ==
    [][\A n \in NovelIds : novels'[n].views >= novels[n].views]_vars

(***************************************************************************)
(* The listing pages on their own.                                         *)
(***************************************************************************)
InitPaging ==
    /\ build = "part_002"
    /\ ServerIdle
    /\ NotAlone
    /\ users = [u \in UserIds |-> NewUser]
    /\ fq = [c \in Slots |-> IdleToggle]
    /\ ft = <<>>
    /\ sessions = [sid \in SessionIds |-> {}]
    /\ dq = [c \in Slots |-> IdleDetail]
    /\ incs = [sid \in SessionIds |-> [n \in NovelIds |-> 0]]
    /\ meta = [n \in NovelIds |-> NewMeta]
    /\ lq = NoListing
    /\ au = NoActor
    /\ cs = NoChapterListing
    /\ \E n \in 0..MaxMatching, tie \in 0..MaxMatching :
         /\ tie < n
         /\ pg = [n |-> n, tie |-> tie, seen |-> [p \in Pages |-> NotFetched]]

NextPaging == ListPage

SpecPaging == InitPaging /\ [][NextPaging]_vars

\* C16: with page size 12 and N matching novels, totalPages is ceil(N / 12);
\* page p of 1..totalPages returns the min(12p, N) - 12(p - 1) novels at its
\* positions of the sorted order; once every page has been fetched, every
\* matching novel is on exactly one page; for N = 25, page 3 returns one
\* novel and totalPages is 3.
C16_PagesPartitionMatches ==
    LET total == Ceil(pg.n, PageSize)
        fetched == {p \in Pages : pg.seen[p].fetched}
    IN  /\ \A p \in fetched :
             /\ pg.seen[p].totalPages = total
             /\ p <= total =>
                   Cardinality(pg.seen[p].items) = Min(PageSize * p, pg.n) - PageSize * (p - 1)
             /\ (pg.n = 25 /\ p = 3) => Cardinality(pg.seen[p].items) = 1 /\ total = 3
        /\ (1..total) \subseteq fetched =>
              \A item \in 1..pg.n :
                 Cardinality({p \in 1..total : item \in pg.seen[p].items}) = 1

(***************************************************************************)
(* The listing filter and the recommended novel on their own.              *)
(***************************************************************************)
InitFilter ==
    /\ build \in {"server", "part_002"}
    /\ ServerIdle
    /\ NotAlone
    /\ users = [u \in UserIds |-> NewUser]
    /\ fq = [c \in Slots |-> IdleToggle]
    /\ ft = <<>>
    /\ sessions = [sid \in SessionIds |-> {}]
    /\ dq = [c \in Slots |-> IdleDetail]
    /\ incs = [sid \in SessionIds |-> [n \in NovelIds |-> 0]]
    /\ pg = [n |-> 0, tie |-> 0, seen |-> [p \in Pages |-> NotFetched]]
    /\ meta \in [NovelIds -> ListedMeta]
    /\ lq = NoListing
    /\ au = NoActor
    /\ cs = NoChapterListing

NextFilter == ListNovels

SpecFilter == InitFilter /\ [][NextFilter]_vars

\* The title contains the term, letters compared without regard to case.
ContainsText(title, term) ==
    \E i \in 0..(Len(title) - Len(term)) :
       \A j \in 1..Len(term) : LowerCase(term[j]) = LowerCase(title[i + j])

\* C17: the listing of part_002 returns a novel only if its title contains
\* the search term (case-insensitive), its categories contain the requested
\* category, its status is the requested status and its tags contain every
\* selected tag; an omitted criterion excludes nothing.
C17_FilterIsConjunction ==
    (lq.answered /\ build = "part_002")
        => \A n \in Existing :
              n \in lq.returned
                 <=> /\ TruthyStr(lq.query.q) => ContainsText(meta[n].title, lq.query.q.s)
                     /\ lq.query.category # "" => lq.query.category \in meta[n].categories
                     /\ lq.query.status # "" => meta[n].status = lq.query.status
                     /\ lq.query.tags \subseteq meta[n].tags
                     /\ lq.query.page = 1

\* C18: the recommended novel is non-null only when no filter is active and
\* the page is 1, and a recommended novel has a non-empty cover image URL.
C18_RecommendedHasCover ==
    (lq.answered /\ lq.recommended # 0)
        => /\ ~FilterActive(lq.query)
           /\ lq.query.page = 1
           /\ meta[lq.recommended].imageUrl # ""

(***************************************************************************)
(* Novel deletion next to chapter creation (part_002).                     *)
(***************************************************************************)
InitDelete == Init /\ build = "part_002"

NextDelete ==
    \/ \E c \in Slots : PostChapterUpload(c)
    \/ \E c \in Slots : PostChapterUploaded(c)
    \/ \E c \in Slots : PostChapterRollup(c)
    \/ \E c \in Slots : DeleteNovel(c)
    \/ \E c \in Slots : DeleteNovelChapters(c)

SpecDelete == InitDelete /\ [][NextDelete]_vars

Quiescent == \A c \in Slots : ~InFlight(c)

\* C19: once a novel deletion has completed and no request is in flight, no
\* chapter references the deleted novel, also when a chapter creation for
\* the novel overlapped the deletion (no creation arrived after it).
C19_DeletedNovelHasNoChapters ==
    \A n \in NovelIds :
       (Quiescent /\ ~novels[n].exists /\ (overlap \/ last.route = "novel"))
           => \A ch \in chapters : ch.novelId # n

(***************************************************************************)
(* Roles: the novel routes and registration.                               *)
(***************************************************************************)
InitRoles == Init

NextRoles ==
    \/ PostNovel
    \/ PutNovel
    \/ \E c \in Slots : DeleteNovel(c)
    \/ \E c \in Slots : DeleteNovelChapters(c)
    \/ Register

SpecRoles == InitRoles /\ [][NextRoles]_vars

\* C20: write capability is ordered admin > writer > reader: the request
\* that changed a novel last came from a writer or an admin session, what a
\* writer may do an admin may do, a novel deletion came from an admin
\* session, and every registered account has the role reader.
C20_RoleTiers ==
    /\ au.route # "none" => au.by \in {"writer", "admin"}
    /\ MayWriteChapters(build, "writer") => MayWriteChapters(build, "admin")
    /\ MayWriteNovels(build, "writer") => MayWriteNovels(build, "admin")
    /\ MayDeleteNovel(build, "writer") => MayDeleteNovel(build, "admin")
    /\ au.route = "novel_delete" => au.by = "admin"
    /\ \A a \in au.accounts : a.role = "reader"

(***************************************************************************)
(* Chapter creation of server.js on its own.                               *)
(***************************************************************************)
InitIngest == Init /\ build = "server"

\* The requests arrive one at a time.
PostChapterReadAlone(c) ==
    /\ Quiescent
    /\ PostChapterRead(c)

NextIngest ==
    \/ \E c \in Slots : PostChapterReadAlone(c)
    \/ \E c \in Slots : PostChapterManualCreate(c)
    \/ \E c \in Slots : PostChapterFindNovel(c)
    \/ \E c \in Slots : PostChapterProviderCall(c)
    \/ \E c \in Slots : PostChapterSleepDone(c)

SpecIngest == InitIngest /\ [][NextIngest]_vars

\* The provider failed for the answered request: generateWithRetry threw,
\* on an error of the provider or on a reply that JSON.parse rejects.
ProviderFailed(a) == a.route = "chapters" /\ a.mode = "auto" /\ a.frame.status = "thrown"

\* C21: an auto mode request in which the provider fails fatally, exhausts
\* its retries or returns text that is not JSON is answered with a failure,
\* in JSON when the caller's Accept header names JSON, and creates no
\* chapter.
C21_ProviderFailureAnswered ==
    ProviderFailed(last)
        => /\ last.resp \in {"json_error", "text_error"}
           /\ last.hdr = "json" => last.resp = "json_error"
           /\ last.made = NoChapter
           /\ clock = 1 => \E S \in InitialNumberSets : chapters = InitialChapters(S)

\* The third reply in a row was not JSON, for a caller that accepts JSON.
C21_Witness ==
    /\ ProviderFailed(last)
    /\ last.frame.calls = DefaultRetries
    /\ last.hdr = "json"
    /\ last.resp = "json_error"

(***************************************************************************)
(* Chapter creation of part_002 on its own: Chapter.create, then the       *)
(* rollup of the novel.                                                    *)
(***************************************************************************)
InitRollup == Init /\ build = "part_002"

NextRollup ==
    \/ \E c \in Slots : PostChapterSanitizedCreate(c)
    \/ \E c \in Slots : PostChapterRollup(c)

SpecRollup == InitRollup /\ [][NextRollup]_vars

\* The novel of the answered request, when it exists.
NovelOf(a) == a.novelId \in NovelIds /\ novels[a.novelId].exists

\* C22: when chapter creations for one novel interleave, the lastChapter of
\* the novel in the quiescent state is the rollup of the request whose
\* update of the novel was applied last, which the model answers last.
C22_LastWriterWins ==
    (Quiescent /\ overlap /\ Created(last) /\ NovelOf(last))
        => LET rollup == novels[last.novelId].lastChapter
           IN  /\ rollup.set
               /\ rollup.chapterNumber = last.made.chapterNumber
               /\ rollup.title = last.made.title

\* The last writer's chapter is neither the one inserted last nor the one
\* with the highest number.
C22_Witness ==
    /\ Quiescent /\ overlap /\ Created(last) /\ NovelOf(last)
    /\ novels[last.novelId].lastChapter.chapterNumber = last.made.chapterNumber
    /\ \E ch \in chapters : ch.novelId = last.novelId /\ ch.id > last.made.id
    /\ \E ch \in chapters :
          ch.novelId = last.novelId /\ ch.chapterNumber > last.made.chapterNumber

\* C28: a chapter creation that ends with a failure response has persisted
\* no chapter and has not changed the novel, also when the failure is raised
\* after Chapter.create.
C28_FailureLeavesNoTrace ==
    (last.route = "chapters" /\ last.resp \in {"json_error", "text_error"})
        => /\ last.made = NoChapter
           /\ (~overlap /\ NovelOf(last)) => novels[last.novelId].updatedAt < last.at

(***************************************************************************)
(* Creation, edit and deletion of chapters in part_002.                    *)
(***************************************************************************)
NextEdits ==
    \/ \E c \in Slots : PostChapterSanitizedCreate(c)
    \/ \E c \in Slots : PostChapterRollup(c)
    \/ \E c \in Slots : PutChapter(c)
    \/ \E c \in Slots : DeleteChapter(c)

SpecEdits == InitRollup /\ [][NextEdits]_vars

\* The step answers an edit or a deletion of a chapter.
EditOrDeleteStep == last' # last /\ last'.route \in {"chapter", "chapter_delete"}

\* C29: a deletion of a chapter and an edit of a chapter's number or title
\* leave the novels as they are; lastChapter changes only in the rollup of
\* a creation, to the number and title of the chapter created.
C29_RollupOnlyByCreation ==
    [][/\ EditOrDeleteStep => novels' = novels
       /\ \A n \in NovelIds :
             novels'[n].lastChapter # novels[n].lastChapter
                 => /\ Created(last') /\ last'.novelId = n
                    /\ novels'[n].lastChapter.chapterNumber = last'.made.chapterNumber
                    /\ novels'[n].lastChapter.title = last'.made.title]_vars

\* After a creation and a deletion the rollup names a chapter that the
\* novel does not hold any more.
C29_Witness ==
    /\ last.route = "chapter_delete" /\ last.resp = "redirect"
    /\ NovelOf(last)
    /\ novels[last.novelId].lastChapter.chapterNumber = last.made.chapterNumber
    /\ novels[last.novelId].lastChapter.title = last.made.title
    /\ novels[last.novelId].updatedAt > 0
    /\ \A ch \in chapters :
          ch.novelId = last.novelId
              => \/ ch.chapterNumber # last.made.chapterNumber
                 \/ ch.title # last.made.title

(***************************************************************************)
(* Overlapping chapter creations of server.js: the read of the highest     *)
(* chapter number, then Chapter.create.                                    *)
(***************************************************************************)
NextNumbering ==
    \/ \E c \in Slots : PostChapterRead(c)
    \/ \E c \in Slots : PostChapterManualCreate(c)

SpecNumbering == InitIngest /\ [][NextNumbering]_vars

\* Request c has read the highest chapter number of novel n and has not
\* created its chapter yet.
HasRead(c, n) == InFlight(c) /\ req[c].novelId = n

\* Two requests only have arrived, and both have read the highest chapter
\* number of novel n before either created its chapter.
BothRead(c, d, n) == clock = 2 /\ c # d /\ HasRead(c, n) /\ HasRead(d, n)

\* C23: two creations for one novel that both read the highest chapter
\* number before either inserts are given the same nextNumber; a creation
\* that omits the number stores its nextNumber, and Chapter.create adds the
\* chapter whatever numbers the novel's chapters already have.
C23_SameNumberTwice ==
    /\ [](\A c, d \in Slots, n \in RequestIds :
             BothRead(c, d, n) => req[c].nextNumber = req[d].nextNumber)
    /\ [][\A c \in Slots :
             (req[c].pc = "creating" /\ req'[c].pc = "idle" /\ ~TruthyField(last'.given))
                 => /\ last'.made.chapterNumber = req[c].nextNumber
                    /\ last'.made.novelId = req[c].novelId
                    /\ last'.made \notin chapters
                    /\ chapters' = chapters \cup {last'.made}]_vars

\* Both requests omitted the number, and the novel holds two chapters
\* with one number.
C23_Witness ==
    /\ clock = 2 /\ overlap /\ Quiescent
    /\ Created(last) /\ ~TruthyField(last.given)
    /\ \E ch \in chapters :
          /\ ch.id = last.made.id - 1
          /\ ch.novelId = last.made.novelId
          /\ ch.chapterNumber = last.made.chapterNumber

(***************************************************************************)
(* Two overlapping toggles of one user, from any list of favorites         *)
(* without duplicates.                                                     *)
(***************************************************************************)
FavoriteLists ==
    {f \in SeqsUpTo(RequestIds, Cardinality(RequestIds)) :
        \A i, j \in 1..Len(f) : f[i] = f[j] => i = j}

InitToggles ==
    /\ build = "part_002"
    /\ ServerIdle
    /\ NotAlone
    /\ users \in [UserIds -> {[favorites |-> f, version |-> 0] : f \in FavoriteLists}]
    /\ fq = [c \in Slots |-> IdleToggle]
    /\ ft = <<>>
    /\ sessions = [sid \in SessionIds |-> {}]
    /\ dq = [c \in Slots |-> IdleDetail]
    /\ incs = [sid \in SessionIds |-> [n \in NovelIds |-> 0]]
    /\ pg = [n |-> 0, tie |-> 0, seen |-> [p \in Pages |-> NotFetched]]
    /\ meta = [n \in NovelIds |-> NewMeta]
    /\ lq = NoListing
    /\ au = NoActor
    /\ cs = NoChapterListing

\* Two toggles arrive, and no third.
FavoriteReadPair(c) ==
    /\ clock < 2
    /\ FavoriteRead(c)

NextToggles ==
    \/ \E c \in Slots : FavoriteReadPair(c)
    \/ \E c \in Slots : FavoriteSave(c)

SpecToggles == InitToggles /\ [][NextToggles]_vars

\* The two toggles that have arrived are answered; they were by one user,
\* on two novels, and both read the list before either saved.
TwoToggles ==
    /\ clock = 2 /\ Len(ft) = 2 /\ TogglesInFlight = {}
    /\ ~ft[1].alone /\ ~ft[2].alone
    /\ ft[1].user = ft[2].user
    /\ ft[1].novelId # ft[2].novelId

\* The list a toggle of novel n makes of the list it read.
Toggled(list, n) ==
    IF Contains(list, n) THEN Splice(list, IndexOf(list, n)) ELSE Append(list, n)

C25_MissingNovelFails ==
    (last.route = "chapters" /\ last.resp # "redirect_denied" /\ ~NovelOf(last))
        => /\ last.resp \in {"json_error", "text_error"}
           /\ last.made = NoChapter

(***************************************************************************)
(* The chapter listing on its own, over stores of at most two chapters.    *)
(***************************************************************************)
InitChapters ==
    /\ build = "part_002"
    /\ ServerIdle
    /\ NotAlone
    /\ users = [u \in UserIds |-> NewUser]
    /\ fq = [c \in Slots |-> IdleToggle]
    /\ ft = <<>>
    /\ sessions = [sid \in SessionIds |-> {}]
    /\ dq = [c \in Slots |-> IdleDetail]
    /\ incs = [sid \in SessionIds |-> [n \in NovelIds |-> 0]]
    /\ pg = [n |-> 0, tie |-> 0, seen |-> [p \in Pages |-> NotFetched]]
    /\ meta = [n \in NovelIds |-> NewMeta]
    /\ lq = NoListing
    /\ au = NoActor
    /\ \E a, b \in ListedChapters :
          cs \in {[NoChapterListing EXCEPT !.docs = D] : D \in {{}, {a}, {a, b}}}

NextChapters == ListChapters \/ ListNovelsSkip

SpecChapters == InitChapters /\ [][NextChapters]_vars

\* C26: in the chapter listing of a novel, a numeric search term equal to
\* the number of a chapter of that novel, a fractional number included,
\* matches that chapter whatever its title, and no chapter of another novel
\* is returned.
C26_NumberSearchFinds ==
    (cs.answered /\ cs.resp = "page" /\ cs.skip = 0)
        => /\ \A doc \in cs.docs :
                 (doc.novelId = cs.novelId /\ NumberText(doc.h) = cs.chapterSearch)
                     => doc \in cs.found
           /\ \A doc \in cs.found : doc.novelId = cs.novelId

(***************************************************************************)
(* The sleeps of generateWithRetry, checked under SpecRetry.               *)
(***************************************************************************)
\* C27: one sleep of a fixed length lies between two consecutive provider
\* calls, every sleep has the same delay, and no sleep follows the last
\* failed attempt or a success.
C27_OneFixedSleepBetweenCalls ==
    LET f == rw.f
    IN  /\ f.status \in {"calling", "sleeping"} => Len(f.waits) = f.calls
        /\ f.status \in {"returned", "thrown"} => Len(f.waits) = f.calls - 1
        /\ f.sleeps = IF f.status = "sleeping" THEN Len(f.waits) - 1 ELSE Len(f.waits)
        /\ \A k \in 1..Len(f.waits) : f.waits[k] = f.waits[1]

\* Two sleeps, then the last attempt failed.
C27_Witness ==
    /\ rw.f.retries = 3
    /\ rw.f.status = "thrown"
    /\ rw.f.calls = 3
    /\ Len(rw.f.waits) = 2

\* C30: whatever the page parameter is (missing, not a number, zero or
\* negative), the page of the novel listing and of the chapter listing is
\* at least 1 and the skip passed to the store is at least 0.
C30_PageAtLeastOne ==
    /\ cs.answered => (cs.page >= 1 /\ cs.skip >= 0)
    /\ cs.home.asked => (cs.home.page >= 1 /\ cs.home.skip >= 0)

=============================================================================
